---- MODULE Spec2Model ----
(***************************************************************************)
(* Arena room coordination of nostr-arena (src/src/arena.rs), as a state   *)
(* machine: two Arena instances, the relay's newest room snapshot per tag, *)
(* the ephemerals in flight, the spawned timer tasks, and the events each  *)
(* Arena sent to its application.                                          *)
(*                                                                         *)
(* Every API method and every inbound handler is one atomic action.  The   *)
(* tasks the code spawns (heartbeat, presence update, countdown, join      *)
(* re-publish) step on their own, at any time.  reconnect(r) is leave()    *)
(* followed by join(r) and is covered by those two actions.  The           *)
(* application is taken to drain the event queue, so event_tx.send never   *)
(* waits; log is the history of what was sent.                             *)
(***************************************************************************)
EXTENDS Integers, Sequences, FiniteSets, Bags, TLC

\* ---------------------------------------------------------------- bounds
MaxTime == 2
MaxLog == 6
MaxNet == 2
MaxSubs == 2
MaxSeed == 2
MaxSkew == 1
MaxCalls == 3

\* ---------------------------------------------------------- configuration
MaxPlayers == 2
CountdownSeconds == 2
DisconnectThreshold == 1
StateThrottle == 1
StartTime == 1
QueueCap == 2

Inst == {"A", "B"}
Rooms == {"r1", "r2"}
Seeds == 1..MaxSeed
GameStates == {7}
StartModes == {"Auto", "Ready", "Countdown", "Host"}
None == "none"
NoSnap == [status |-> "none"]
Garbage == [status |-> "garbage"]
Expiries == {0, 1}
NoSeed == 0
Foreign == "X"
\* the locks of one Arena, and the tasks that run on it at the same time
Locks == {"room_state", "players", "player_states"}
Tasks == {"t1", "t2", "t3"}
Finished == [path |-> <<>>, pc |-> 1]

VARIABLES
  start_mode,        \* ArenaConfig.start_mode, the same on every instance
  skew,              \* skew[i]: how far instance i's wall clock runs ahead
  faults,            \* whether relay operations may fail
  room_expiry,       \* ArenaConfig.room_expiry (0: rooms never expire)
  now,               \* reference time
  room_id, status, is_host, seed, rematch_requested,   \* RoomState, per instance
  expires_at,        \* RoomState.expires_at: {} for None, {t} for Some(t)
  players,           \* players[i]: pubkey -> PlayerPresence
  player_states,     \* player_states[i]: pubkey -> game state
  last_state_update, \* per instance
  log,               \* log[i]: the ArenaEvents sent on event_tx since create/join
  subs,              \* subs[i][r]: subscribe_room calls of i for room r
  hb_tasks,          \* live heartbeat tasks per instance
  presence_tasks,    \* live presence-update tasks per instance
  countdowns,        \* countdowns[i]: bag of running countdown tasks
  rejoin,            \* rejoin[i]: bag of join re-publish tasks
  snapshot,          \* snapshot[r]: newest room-kind event of the room tag
  net,               \* bag of ephemerals on their way to a handler
  last,              \* the call, handler or task step that ran last
  calls,             \* calls[i]: API calls the application of i has made
  ready_seen,        \* ready_seen[i]: pubkeys whose Ready(true) i sent or ingested
                     \* since its last rematch reset, and did not see withdrawn
  drains,            \* drains[i]: the application of i takes each event as it is sent
  sending,           \* sending[i]: bag of send_state calls between two of their awaits
  state_sent,        \* state_sent[i]: the `now` of each send_state call that published
  parked,            \* parked[i]: producers waiting in event_tx.send, with the lock held
  running,           \* running[t]: the code path task t of one Arena runs, and its position
  lock_q             \* lock_q[l]: tasks waiting in l.read().await or l.write().await, oldest first

vars == <<start_mode, skew, faults, room_expiry, expires_at, now, room_id, status, is_host, seed, rematch_requested,
          players, player_states, last_state_update, log, subs, hb_tasks,
          presence_tasks, countdowns, rejoin, snapshot, net, last, calls, ready_seen, drains,
          sending, state_sent, parked, running, lock_q>>

room_vars == <<room_id, status, is_host, seed, rematch_requested>>
env_vars == <<start_mode, skew, faults, drains, room_expiry>>

\* written only where calls of one instance overlap, or a producer waits
lock_vars == <<running, lock_q>>
arena_vars == <<start_mode, skew, faults, room_expiry, expires_at, now, room_id, status, is_host, seed,
                rematch_requested, players, player_states, last_state_update, log, subs, hb_tasks,
                presence_tasks, countdowns, rejoin, snapshot, net, last, calls, ready_seen, drains,
                sending, state_sent, parked>>
conc_vars == <<sending, state_sent, parked, lock_vars>>

\* --------------------------------------------------------------- helpers
now_ms(i) == now + skew[i]

Presence(pk, t) == [pubkey |-> pk, joined_at |-> t, last_seen |-> t, ready |-> FALSE]

Insert(m, k, v) == [q \in DOMAIN m \cup {k} |-> IF q = k THEN v ELSE m[q]]

Remove(m, ks) == [q \in DOMAIN m \ ks |-> m[q]]

Empty == [q \in {} |-> 0]

Ev(e, v) == [e |-> e, v |-> v]

\* Events of i still in the channel: none if the application takes each event
\* as it is sent, all of them if it never calls recv or try_recv.
Undelivered(i) == IF drains[i] THEN 0 ELSE Len(log[i])

\* event_tx.send(e).await returns once the channel has room for e.  A step
\* that sends n events runs when they fit; the producers that are followed
\* into their wait are in parked.
CanEmit(i, n) == Len(log[i]) + n <= MaxLog /\ Undelivered(i) + n <= QueueCap

\* A producer waiting in event_tx.send holds the write lock of room_state.
Locked(i) == \E p \in parked[i] : p.holds = "room_state"

SubCount(sbi) == LET RECURSIVE Sum(_)
                     Sum(S) == IF S = {} THEN 0
                               ELSE LET r == CHOOSE x \in S : TRUE
                                    IN sbi[r] + Sum(S \ {r})
                 IN Sum(Rooms)

\* notification loops of instance i: one per subscribe_room call, never stopped
Callbacks(i) == SubCount(subs[i])

\* An ephemeral on its way to a callback of instance `to`.  n orders the
\* pending ephemerals of one instance by arrival: a smaller n arrived earlier.
Msg(to, from, type, val, n) == [to |-> to, from |-> from, type |-> type, val |-> val, n |-> n]

Pending(nt, j) == {x \in BagToSet(nt) : x.to = j}

\* The arrival number of the next ephemeral for j: behind everything pending.
NextN(nt, j) ==
  IF Pending(nt, j) = {} THEN 0
  ELSE 1 + (CHOOSE k \in {x.n : x \in Pending(nt, j)} : \A x \in Pending(nt, j) : x.n <= k)

\* The relay forwards an ephemeral to every client holding a subscription of
\* the tag, over that client's connection and behind what it forwarded before;
\* each notification loop of that client then calls its callback.
Fanout(nt, sb, r, from, type, val) ==
  LET RECURSIVE Add(_)
      Add(S) == IF S = {} THEN EmptyBag
                ELSE LET j == CHOOSE x \in S : TRUE
                     IN IF sb[j][r] > 0
                        THEN [x \in {Msg(j, from, type, val, NextN(nt, j))} |-> SubCount(sb[j])]
                             (+) Add(S \ {j})
                        ELSE Add(S \ {j})
  IN Add(Inst)

publish_ephemeral(nt, sb, r, from, type, val) == nt (+) Fanout(nt, sb, r, from, type, val)

\* The pending ephemerals once m has been taken: the arrival numbers of what
\* is left for m's receiver start at 0 again.
Taken(nt, m) ==
  LET rest == nt (-) SetToBag({m})
      S == BagToSet(rest)
      Low(j) == CHOOSE k \in {x.n : x \in Pending(rest, j)} : \A x \in Pending(rest, j) : k <= x.n
      Sh(x) == [x EXCEPT !.n = @ - Low(x.to)]
  IN IF S = {} THEN EmptyBag
     ELSE [y \in {Sh(x) : x \in S} |-> rest[CHOOSE x \in S : Sh(x) = y]]

NetFits(nt) == BagCardinality(nt) <= MaxNet

AllReadyIn(m) == \A q \in DOMAIN m : m[q].ready

\* Results of a relay operation (publish, fetch, subscribe).
Oks == IF faults THEN BOOLEAN ELSE {TRUE}

Outcomes(failures) == IF faults THEN {"Ok"} \cup failures ELSE {"Ok"}

Init ==
  /\ start_mode \in StartModes
  /\ skew \in [Inst -> 0..MaxSkew]
  /\ faults \in BOOLEAN
  /\ room_expiry \in Expiries
  /\ expires_at = [i \in Inst |-> {}]
  /\ now = StartTime
  /\ room_id = [i \in Inst |-> None]
  /\ status = [i \in Inst |-> "Idle"]
  /\ is_host = [i \in Inst |-> FALSE]
  /\ seed = [i \in Inst |-> 0]
  /\ rematch_requested = [i \in Inst |-> FALSE]
  /\ players = [i \in Inst |-> Empty]
  /\ player_states = [i \in Inst |-> Empty]
  /\ last_state_update = [i \in Inst |-> 0]
  /\ log = [i \in Inst |-> <<>>]
  /\ subs = [i \in Inst |-> [r \in Rooms |-> 0]]
  /\ hb_tasks = [i \in Inst |-> 0]
  /\ presence_tasks = [i \in Inst |-> 0]
  /\ countdowns = [i \in Inst |-> EmptyBag]
  /\ rejoin = [i \in Inst |-> EmptyBag]
  /\ snapshot = [r \in Rooms |-> NoSnap]
  /\ net = EmptyBag
  /\ last = [op |-> "init", i |-> None, res |-> "Ok"]
  /\ calls = [i \in Inst |-> 0]
  /\ ready_seen = [i \in Inst |-> {}]
  /\ drains \in [Inst -> BOOLEAN]
  /\ sending = [i \in Inst |-> EmptyBag]
  /\ state_sent = [i \in Inst |-> <<>>]
  /\ parked = [i \in Inst |-> {}]
  /\ running = [t \in Tasks |-> Finished]
  /\ lock_q = [l \in Locks |-> <<>>]

Did(op, i, res) == last' = [op |-> op, i |-> i, res |-> res]

\* The application of instance i makes one more API call.
Call(i) == calls[i] < MaxCalls /\ calls' = [calls EXCEPT ![i] = @ + 1]

\* A call that starts by taking the room_state lock.
Enter(i) == Call(i) /\ ~Locked(i)

\* ------------------------------------------------------------ lifecycle
RoomSnapshot(st, sd, host, exp, pl) ==
  [status |-> st, seed |-> sd, host_pubkey |-> host, max_players |-> MaxPlayers,
   expires_at |-> exp, players |-> pl]

\* generate_room_id(): a fresh random id
Fresh(r) == snapshot[r] = NoSnap /\ \A j \in Inst : room_id[j] # r /\ subs[j][r] = 0

\* Arena::create.  out: "Ok", or the step that failed.
create(i, r, sd, out) ==
  LET t == now_ms(i)
      pl == Insert(players[i], i, Presence(i, t))
      exp == IF room_expiry > 0 THEN {t + room_expiry} ELSE {}
  IN /\ Fresh(r)
     /\ Callbacks(i) < MaxSubs
     /\ room_id' = [room_id EXCEPT ![i] = r]
     /\ expires_at' = [expires_at EXCEPT ![i] = exp]
     /\ is_host' = [is_host EXCEPT ![i] = TRUE]
     /\ seed' = [seed EXCEPT ![i] = sd]
     /\ players' = [players EXCEPT ![i] = pl]
     /\ IF out = "publish_failed"
        THEN /\ status' = [status EXCEPT ![i] = "Creating"]
             /\ Did("create", i, "Nostr")
             /\ UNCHANGED <<snapshot, subs, hb_tasks, presence_tasks, log>>
        ELSE /\ snapshot' = [snapshot EXCEPT ![r] = RoomSnapshot("Waiting", sd, i, exp, pl)]
             /\ status' = [status EXCEPT ![i] = "Waiting"]
             /\ IF out = "subscribe_failed"
                THEN /\ Did("create", i, "Nostr")
                     /\ UNCHANGED <<subs, hb_tasks, presence_tasks, log>>
                ELSE /\ subs' = [subs EXCEPT ![i][r] = @ + 1]
                     /\ hb_tasks' = [hb_tasks EXCEPT ![i] = @ + 1]
                     /\ presence_tasks' = [presence_tasks EXCEPT ![i] = @ + 1]
                     /\ log' = [log EXCEPT ![i] = <<>>]
                     /\ Did("create", i, "Ok")
     /\ UNCHANGED <<env_vars, conc_vars, ready_seen, now, rematch_requested, player_states, last_state_update,
                    countdowns, rejoin, net>>

CreateRoom(i, r) == \E sd \in Seeds, out \in Outcomes({"publish_failed", "subscribe_failed"}) :
                      create(i, r, sd, out)

\* create() when the generated id is that of the first room
Create(i) == CreateRoom(i, "r1")


\* a join that tests the player count before everything else
JoinErrorFullFirst(snap, t) ==
  IF snap # NoSnap /\ snap # Garbage /\ Cardinality(DOMAIN snap.players) >= snap.max_players
  THEN "RoomFull"
  ELSE IF snap = NoSnap THEN "RoomNotFound"
  ELSE IF snap = Garbage THEN "InvalidRoomData"
  ELSE IF snap.status = "Deleted" THEN "RoomDeleted"
  ELSE IF \E e \in snap.expires_at : t > e THEN "RoomExpired"
  ELSE "Ok"

\* The tests Arena::join makes on the fetched room event before it writes any
\* state, in its order; "Ok" when all pass.
JoinError(snap, t) ==
  IF snap = NoSnap THEN "RoomNotFound"
  ELSE IF snap = Garbage THEN "InvalidRoomData"
  ELSE IF snap.status = "Deleted" THEN "RoomDeleted"
  ELSE IF \E e \in snap.expires_at : t > e THEN "RoomExpired"
  ELSE IF Cardinality(DOMAIN snap.players) >= snap.max_players THEN "RoomFull"
  ELSE "Ok"

\* Arena::join.  out: "Ok", or the step that failed.
join(i, r, out) ==
  LET snap == snapshot[r]
      t == now_ms(i)
      pl == Insert([q \in DOMAIN players[i] \cup DOMAIN snap.players |->
                      IF q \in DOMAIN snap.players THEN snap.players[q] ELSE players[i][q]],
                   i, Presence(i, t))
      sent == publish_ephemeral(net, subs, r, i, "join", i)
      auto == start_mode = "Auto" /\ Cardinality(DOMAIN pl) >= MaxPlayers
  IN /\ Callbacks(i) < MaxSubs
     /\ IF out = "fetch_failed"
        THEN /\ Did("join", i, "Nostr")
             /\ UNCHANGED <<room_vars, expires_at, players, net, subs, hb_tasks, rejoin, log>>
        ELSE IF JoinError(snap, t) # "Ok"
        THEN /\ Did("join", i, JoinError(snap, t))
             /\ UNCHANGED <<room_vars, expires_at, players, net, subs, hb_tasks, rejoin, log>>
        ELSE /\ room_id' = [room_id EXCEPT ![i] = r]
             /\ is_host' = [is_host EXCEPT ![i] = FALSE]
             /\ seed' = [seed EXCEPT ![i] = snap.seed]
             /\ expires_at' = [expires_at EXCEPT ![i] = snap.expires_at]
             /\ players' = [players EXCEPT ![i] = pl]
             /\ UNCHANGED rematch_requested
             /\ IF out = "publish_failed"
                THEN /\ status' = [status EXCEPT ![i] = "Joining"]
                     /\ Did("join", i, "Nostr")
                     /\ UNCHANGED <<net, subs, hb_tasks, rejoin, log>>
                ELSE /\ NetFits(sent)
                     /\ net' = sent
                     /\ IF out = "subscribe_failed"
                        THEN /\ status' = [status EXCEPT ![i] = "Joining"]
                             /\ Did("join", i, "Nostr")
                             /\ UNCHANGED <<subs, hb_tasks, rejoin, log>>
                        ELSE /\ subs' = [subs EXCEPT ![i][r] = @ + 1]
                             /\ hb_tasks' = [hb_tasks EXCEPT ![i] = @ + 1]
                             /\ rejoin' = [rejoin EXCEPT ![i] = @ (+) SetToBag({[room |-> r, left |-> 2]})]
                             /\ status' = [status EXCEPT ![i] = IF auto THEN "Playing" ELSE "Ready"]
                             /\ log' = [log EXCEPT ![i] = IF auto THEN <<Ev("GameStart", 0)>> ELSE <<>>]
                             /\ Did("join", i, "Ok")
     /\ UNCHANGED <<env_vars, conc_vars, ready_seen, now, player_states, last_state_update,
                    presence_tasks, countdowns, snapshot>>

JoinRoom(i, r) == \E out \in Outcomes({"fetch_failed", "publish_failed", "subscribe_failed"}) :
                    join(i, r, out)

\* join() of the first room
Join(i) == JoinRoom(i, "r1")

\* leave() that forgets player_states
leave_keeps_states(i) ==
  /\ room_id' = [room_id EXCEPT ![i] = None]
  /\ status' = [status EXCEPT ![i] = "Idle"]
  /\ is_host' = [is_host EXCEPT ![i] = FALSE]
  /\ players' = [players EXCEPT ![i] = Empty]
  /\ UNCHANGED <<player_states, seed, rematch_requested>>

\* Arena::leave
leave(i) ==
  /\ room_id' = [room_id EXCEPT ![i] = None]
  /\ status' = [status EXCEPT ![i] = "Idle"]
  /\ is_host' = [is_host EXCEPT ![i] = FALSE]
  /\ players' = [players EXCEPT ![i] = Empty]
  /\ player_states' = [player_states EXCEPT ![i] = Empty]
  /\ UNCHANGED <<seed, rematch_requested>>

Leave(i) ==
  /\ leave(i)
  /\ Did("leave", i, "Ok")
  /\ UNCHANGED <<env_vars, expires_at, conc_vars, ready_seen, now, last_state_update, log, subs, hb_tasks, presence_tasks,
                 countdowns, rejoin, snapshot, net>>

\* delete_room() that clears the local state whether or not the publish succeeded
DeleteRoomAlwaysLeaves(i) ==
  /\ IF ~is_host[i]
     THEN Did("delete_room", i, "NotAuthorized") /\ UNCHANGED <<room_vars, players, player_states, snapshot>>
     ELSE IF room_id[i] = None
     THEN Did("delete_room", i, "NotInRoom") /\ UNCHANGED <<room_vars, players, player_states, snapshot>>
     ELSE \E ok \in Oks :
            /\ leave(i)
            /\ IF ~ok
               THEN Did("delete_room", i, "Nostr") /\ UNCHANGED snapshot
               ELSE /\ snapshot' = [snapshot EXCEPT ![room_id[i]] =
                                      RoomSnapshot("Deleted", seed[i], i, expires_at[i], Empty)]
                    /\ Did("delete_room", i, "Ok")
  /\ UNCHANGED <<env_vars, expires_at, conc_vars, ready_seen, now, last_state_update, log, subs, hb_tasks, presence_tasks,
                 countdowns, rejoin, net>>

\* delete_room() that marks the local room as Deleted, as it does the snapshot
DeleteRoomMarksLocal(i) ==
  /\ IF ~is_host[i]
     THEN Did("delete_room", i, "NotAuthorized") /\ UNCHANGED <<room_vars, players, player_states, snapshot>>
     ELSE IF room_id[i] = None
     THEN Did("delete_room", i, "NotInRoom") /\ UNCHANGED <<room_vars, players, player_states, snapshot>>
     ELSE \E ok \in Oks :
            IF ~ok
            THEN Did("delete_room", i, "Nostr") /\ UNCHANGED <<room_vars, players, player_states, snapshot>>
            ELSE /\ snapshot' = [snapshot EXCEPT ![room_id[i]] =
                                   RoomSnapshot("Deleted", seed[i], i, expires_at[i], Empty)]
                 /\ status' = [status EXCEPT ![i] = "Deleted"]
                 /\ UNCHANGED <<room_id, is_host, seed, rematch_requested, players, player_states>>
                 /\ Did("delete_room", i, "Ok")
  /\ UNCHANGED <<env_vars, expires_at, conc_vars, ready_seen, now, last_state_update, log, subs, hb_tasks, presence_tasks,
                 countdowns, rejoin, net>>

\* Arena::delete_room
DeleteRoom(i) ==
  /\ IF ~is_host[i]
     THEN Did("delete_room", i, "NotAuthorized") /\ UNCHANGED <<room_vars, players, player_states, snapshot>>
     ELSE IF room_id[i] = None
     THEN Did("delete_room", i, "NotInRoom") /\ UNCHANGED <<room_vars, players, player_states, snapshot>>
     ELSE \E ok \in Oks :
            IF ~ok
            THEN Did("delete_room", i, "Nostr") /\ UNCHANGED <<room_vars, players, player_states, snapshot>>
            ELSE /\ snapshot' = [snapshot EXCEPT ![room_id[i]] =
                                   RoomSnapshot("Deleted", seed[i], i, expires_at[i], Empty)]
                 /\ leave(i)
                 /\ Did("delete_room", i, "Ok")
  /\ UNCHANGED <<env_vars, expires_at, conc_vars, ready_seen, now, last_state_update, log, subs, hb_tasks, presence_tasks,
                 countdowns, rejoin, net>>


\* ------------------------------------------------------------ game state
\* Arena::send_state (throttled), one call run from its start to its return
SendState(i) ==
  \E v \in GameStates, ok \in Oks :
    LET t == now_ms(i)
        sent == publish_ephemeral(net, subs, room_id[i], i, "state", v)
    IN /\ IF t - last_state_update[i] < StateThrottle
          THEN Did("send_state", i, "Throttled") /\ UNCHANGED <<last_state_update, net, state_sent>>
          ELSE /\ ~Locked(i)
               /\ last_state_update' = [last_state_update EXCEPT ![i] = t]
               /\ IF room_id[i] = None
                  THEN Did("send_state", i, "NotInRoom") /\ UNCHANGED <<net, state_sent>>
                  ELSE IF ~ok
                  THEN Did("send_state", i, "Nostr") /\ UNCHANGED <<net, state_sent>>
                  ELSE /\ NetFits(sent)
                       /\ net' = sent
                       /\ state_sent' = [state_sent EXCEPT ![i] = Append(@, t)]
                       /\ Did("send_state", i, "Ok")
       /\ UNCHANGED <<env_vars, lock_vars, expires_at, sending, parked, ready_seen, now, room_vars, players, player_states,
                      log, subs, hb_tasks, presence_tasks, countdowns, rejoin, snapshot>>

\* Arena::send_state called from several tasks of one application: a call can
\* be overtaken at each of its awaits.  First step: read the clock and
\* last_state_update, and return Ok inside the throttle window.
SendStateCheck(i) ==
  LET t == now_ms(i)
  IN /\ IF t - last_state_update[i] < StateThrottle
        THEN Did("send_state", i, "Throttled") /\ UNCHANGED sending
        ELSE /\ sending' = [sending EXCEPT ![i] = @ (+) SetToBag({[pc |-> "store", t |-> t]})]
             /\ Did("send_state_check", i, "Ok")
     /\ UNCHANGED <<env_vars, lock_vars, expires_at, state_sent, parked, ready_seen, now, room_vars, players,
                    player_states, last_state_update, log, subs, hb_tasks, presence_tasks,
                    countdowns, rejoin, snapshot, net>>

\* Second step: `*self.last_state_update.write().await = now`
SendStateStore(i) ==
  \E c \in BagToSet(sending[i]) :
    /\ c.pc = "store"
    /\ last_state_update' = [last_state_update EXCEPT ![i] = c.t]
    /\ sending' = [sending EXCEPT ![i] = (@ (-) SetToBag({c})) (+) SetToBag({[c EXCEPT !.pc = "publish"]})]
    /\ Did("send_state_store", i, "Ok")
    /\ UNCHANGED <<env_vars, lock_vars, expires_at, state_sent, parked, ready_seen, now, room_vars, players,
                   player_states, log, subs, hb_tasks, presence_tasks, countdowns, rejoin,
                   snapshot, net>>

\* Last step: NotInRoom without a room, else the publish, and the return
SendStatePublish(i) ==
  \E c \in BagToSet(sending[i]), v \in GameStates, ok \in Oks :
    LET sent == publish_ephemeral(net, subs, room_id[i], i, "state", v)
    IN /\ c.pc = "publish"
       /\ ~Locked(i)
       /\ sending' = [sending EXCEPT ![i] = @ (-) SetToBag({c})]
       /\ IF room_id[i] = None
          THEN Did("send_state", i, "NotInRoom") /\ UNCHANGED <<net, state_sent>>
          ELSE IF ~ok
          THEN Did("send_state", i, "Nostr") /\ UNCHANGED <<net, state_sent>>
          ELSE /\ NetFits(sent)
               /\ net' = sent
               /\ state_sent' = [state_sent EXCEPT ![i] = Append(@, c.t)]
               /\ Did("send_state", i, "Ok")
       /\ UNCHANGED <<env_vars, lock_vars, expires_at, parked, ready_seen, now, room_vars, players, player_states,
                      last_state_update, log, subs, hb_tasks, presence_tasks, countdowns,
                      rejoin, snapshot>>

\* send_game_over() that sets Finished whether or not the publish succeeded
SendGameOverAlwaysFinishes(i) ==
  \E ok \in Oks :
    LET sent == publish_ephemeral(net, subs, room_id[i], i, "gameover", 0)
    IN /\ IF room_id[i] = None
          THEN Did("send_game_over", i, "NotInRoom") /\ UNCHANGED <<status, net>>
          ELSE IF ~ok
          THEN /\ status' = [status EXCEPT ![i] = "Finished"]
               /\ Did("send_game_over", i, "Nostr")
               /\ UNCHANGED net
          ELSE /\ NetFits(sent)
               /\ net' = sent
               /\ status' = [status EXCEPT ![i] = "Finished"]
               /\ Did("send_game_over", i, "Ok")
       /\ UNCHANGED <<env_vars, expires_at, conc_vars, ready_seen, now, room_id, is_host, seed, rematch_requested, players,
                      player_states, last_state_update, log, subs, hb_tasks, presence_tasks,
                      countdowns, rejoin, snapshot>>

\* Arena::send_game_over
SendGameOver(i) ==
  \E ok \in Oks :
    LET sent == publish_ephemeral(net, subs, room_id[i], i, "gameover", 0)
    IN /\ IF room_id[i] = None
          THEN Did("send_game_over", i, "NotInRoom") /\ UNCHANGED <<status, net>>
          ELSE IF ~ok
          THEN Did("send_game_over", i, "Nostr") /\ UNCHANGED <<status, net>>
          ELSE /\ NetFits(sent)
               /\ net' = sent
               /\ status' = [status EXCEPT ![i] = "Finished"]
               /\ Did("send_game_over", i, "Ok")
       /\ UNCHANGED <<env_vars, expires_at, conc_vars, ready_seen, now, room_id, is_host, seed, rematch_requested, players,
                      player_states, last_state_update, log, subs, hb_tasks, presence_tasks,
                      countdowns, rejoin, snapshot>>

\* Arena::request_rematch
RequestRematch(i) ==
  \E ok \in Oks :
    LET sent == publish_ephemeral(net, subs, room_id[i], i, "rematch_request", 0)
    IN /\ IF status[i] # "Finished"
          THEN Did("request_rematch", i, "Noop") /\ UNCHANGED <<rematch_requested, net>>
          ELSE IF room_id[i] = None
          THEN Did("request_rematch", i, "NotInRoom") /\ UNCHANGED <<rematch_requested, net>>
          ELSE IF ~ok
          THEN Did("request_rematch", i, "Nostr") /\ UNCHANGED <<rematch_requested, net>>
          ELSE /\ NetFits(sent)
               /\ net' = sent
               /\ rematch_requested' = [rematch_requested EXCEPT ![i] = TRUE]
               /\ Did("request_rematch", i, "Ok")
       /\ UNCHANGED <<env_vars, expires_at, conc_vars, ready_seen, now, room_id, status, is_host, seed, players, player_states,
                      last_state_update, log, subs, hb_tasks, presence_tasks, countdowns,
                      rejoin, snapshot>>

\* Arena::reset_for_rematch
reset_for_rematch(i, new_seed) ==
  /\ CanEmit(i, 1)
  /\ seed' = [seed EXCEPT ![i] = new_seed]
  /\ status' = [status EXCEPT ![i] = "Ready"]
  /\ rematch_requested' = [rematch_requested EXCEPT ![i] = FALSE]
  /\ players' = [players EXCEPT ![i] = [q \in DOMAIN @ |-> [@[q] EXCEPT !.ready = FALSE]]]
  /\ player_states' = [player_states EXCEPT ![i] = Empty]
  /\ log' = [log EXCEPT ![i] = Append(@, Ev("RematchStart", new_seed))]
  /\ ready_seen' = [ready_seen EXCEPT ![i] = {}]

\* Arena::accept_rematch
AcceptRematch(i) ==
  \E new_seed \in Seeds, ok \in Oks :
    LET sent == publish_ephemeral(net, subs, room_id[i], i, "rematch_accept", new_seed)
    IN /\ IF room_id[i] = None
          THEN /\ Did("accept_rematch", i, "NotInRoom")
               /\ UNCHANGED <<seed, status, rematch_requested, players, player_states, log, net,
                              ready_seen>>
          ELSE IF ~ok
          THEN /\ Did("accept_rematch", i, "Nostr")
               /\ UNCHANGED <<seed, status, rematch_requested, players, player_states, log, net,
                              ready_seen>>
          ELSE /\ NetFits(sent)
               /\ net' = sent
               /\ reset_for_rematch(i, new_seed)
               /\ Did("accept_rematch", i, "Ok")
       /\ UNCHANGED <<env_vars, expires_at, conc_vars, now, room_id, is_host, last_state_update, subs, hb_tasks,
                      presence_tasks, countdowns, rejoin, snapshot>>

\* ------------------------------------------------------------ start modes
Countdown(kind) == [kind |-> kind, left |-> CountdownSeconds]

\* What follows "all players ready" in Arena::check_all_ready ("local") and in
\* the Ready branch of the subscription handler ("inbound"): the events sent,
\* the status written and the countdown task spawned.
StartEvents == IF start_mode = "Ready" THEN <<Ev("AllReady", 0), Ev("GameStart", 0)>>
               ELSE IF start_mode = "Countdown"
               THEN <<Ev("AllReady", 0), Ev("CountdownStart", CountdownSeconds)>>
               ELSE <<Ev("AllReady", 0)>>

AllReadyStart(i, pl, kind) ==
  IF AllReadyIn(pl)
  THEN /\ CanEmit(i, Len(StartEvents))
       /\ log' = [log EXCEPT ![i] = @ \o StartEvents]
       /\ status' = [status EXCEPT ![i] = IF start_mode = "Ready" THEN "Playing" ELSE @]
       /\ countdowns' = [countdowns EXCEPT ![i] =
                           IF start_mode = "Countdown" THEN @ (+) SetToBag({Countdown(kind)}) ELSE @]
  ELSE UNCHANGED <<log, status, countdowns>>

\* Arena::send_ready, with the check_all_ready it ends in
SendReady(i) ==
  \E ready \in BOOLEAN, ok \in Oks :
    LET sent == publish_ephemeral(net, subs, room_id[i], i, "ready", IF ready THEN 1 ELSE 0)
        pl == IF i \in DOMAIN players[i]
              THEN [players[i] EXCEPT ![i].ready = ready] ELSE players[i]
    IN /\ IF room_id[i] = None
          THEN /\ Did("send_ready", i, "NotInRoom")
               /\ UNCHANGED <<players, net, log, status, countdowns, ready_seen>>
          ELSE IF ~ok
          THEN /\ Did("send_ready", i, "Nostr")
               /\ UNCHANGED <<players, net, log, status, countdowns, ready_seen>>
          ELSE /\ NetFits(sent)
               /\ net' = sent
               /\ players' = [players EXCEPT ![i] = pl]
               /\ AllReadyStart(i, pl, "local")
               /\ ready_seen' = [ready_seen EXCEPT ![i] = IF ready THEN @ \cup {i} ELSE @ \ {i}]
               /\ Did("send_ready", i, "Ok")
       /\ UNCHANGED <<env_vars, expires_at, conc_vars, now, room_id, is_host, seed, rematch_requested, player_states,
                      last_state_update, subs, hb_tasks, presence_tasks, rejoin, snapshot>>

\* Arena::start_game.  It sends GameStart while it holds the write lock of
\* room_state; with the channel full the call waits there.
StartGame(i) ==
  \E ok \in Oks :
    LET sent == publish_ephemeral(net, subs, room_id[i], i, "gamestart", 0)
    IN /\ IF ~is_host[i]
          THEN Did("start_game", i, "NotAuthorized") /\ UNCHANGED <<status, net, log, parked>>
          ELSE IF room_id[i] = None
          THEN Did("start_game", i, "NotInRoom") /\ UNCHANGED <<status, net, log, parked>>
          ELSE IF ~ok
          THEN Did("start_game", i, "Nostr") /\ UNCHANGED <<status, net, log, parked>>
          ELSE /\ NetFits(sent)
               /\ net' = sent
               /\ status' = [status EXCEPT ![i] = "Playing"]
               /\ IF Undelivered(i) >= QueueCap
                  THEN /\ parked' = [parked EXCEPT ![i] =
                                       @ \cup {[op |-> "start_game", holds |-> "room_state"]}]
                       /\ Did("start_game", i, "waiting")
                       /\ UNCHANGED log
                  ELSE /\ CanEmit(i, 1)
                       /\ log' = [log EXCEPT ![i] = Append(@, Ev("GameStart", 0))]
                       /\ Did("start_game", i, "Ok")
                       /\ UNCHANGED parked
       /\ UNCHANGED <<env_vars, lock_vars, expires_at, sending, state_sent, ready_seen, now, room_id, is_host, seed,
                      rematch_requested, players, player_states, last_state_update, subs,
                      hb_tasks, presence_tasks, countdowns, rejoin, snapshot>>


\* ------------------------------------------------- inbound event handler
\* The callback of Arena::start_room_subscription with the task it spawns,
\* for one ephemeral m that reached instance m.to.
on_join(j, m) ==
  LET t == now_ms(j)
      pl == Insert(players[j], m.val, Presence(m.val, t))
      auto == start_mode = "Auto" /\ Cardinality(DOMAIN pl) >= MaxPlayers
  IN /\ CanEmit(j, IF auto THEN 2 ELSE 1)
     /\ players' = [players EXCEPT ![j] = pl]
     /\ log' = [log EXCEPT ![j] = @ \o <<Ev("PlayerJoin", m.val)>>
                                    \o (IF auto THEN <<Ev("GameStart", 0)>> ELSE <<>>)]
     /\ status' = [status EXCEPT ![j] = IF auto THEN "Playing" ELSE @]
     /\ UNCHANGED <<seed, rematch_requested, player_states, countdowns, ready_seen>>

on_state(j, m) ==
  /\ CanEmit(j, 1)
  /\ players' = [players EXCEPT ![j] =
                   IF m.from \in DOMAIN @ THEN [@ EXCEPT ![m.from].last_seen = now_ms(j)] ELSE @]
  /\ player_states' = [player_states EXCEPT ![j] = Insert(@, m.from, m.val)]
  /\ log' = [log EXCEPT ![j] = Append(@, Ev("PlayerState", m.from))]
  /\ UNCHANGED <<status, seed, rematch_requested, countdowns, ready_seen>>

on_heartbeat(j, m) ==
  /\ players' = [players EXCEPT ![j] =
                   IF m.from \in DOMAIN @ THEN [@ EXCEPT ![m.from].last_seen = m.val] ELSE @]
  /\ UNCHANGED <<status, seed, rematch_requested, player_states, log, countdowns, ready_seen>>

on_game_over(j, m) ==
  /\ CanEmit(j, 1)
  /\ log' = [log EXCEPT ![j] = Append(@, Ev("PlayerGameOver", m.from))]
  /\ status' = [status EXCEPT ![j] = "Finished"]
  /\ UNCHANGED <<seed, rematch_requested, players, player_states, countdowns, ready_seen>>

on_rematch_request(j, m) ==
  /\ CanEmit(j, 1)
  /\ log' = [log EXCEPT ![j] = Append(@, Ev("RematchRequested", m.from))]
  /\ UNCHANGED <<status, seed, rematch_requested, players, player_states, countdowns, ready_seen>>

\* an Accept branch that adopts new_seed without testing that it is present
on_rematch_accept_any(j, m) ==
  /\ CanEmit(j, 1)
  /\ seed' = [seed EXCEPT ![j] = m.val]
  /\ status' = [status EXCEPT ![j] = "Ready"]
  /\ rematch_requested' = [rematch_requested EXCEPT ![j] = FALSE]
  /\ log' = [log EXCEPT ![j] = Append(@, Ev("RematchStart", m.val))]
  /\ ready_seen' = [ready_seen EXCEPT ![j] = {}]
  /\ UNCHANGED <<players, player_states, countdowns>>

\* Rematch / Accept: `if let Some(new_seed) = rm.new_seed`
on_rematch_accept(j, m) ==
  IF m.val = NoSeed
  THEN UNCHANGED <<status, seed, rematch_requested, players, player_states, log, countdowns, ready_seen>>
  ELSE /\ CanEmit(j, 1)
       /\ seed' = [seed EXCEPT ![j] = m.val]
       /\ status' = [status EXCEPT ![j] = "Ready"]
       /\ rematch_requested' = [rematch_requested EXCEPT ![j] = FALSE]
       /\ log' = [log EXCEPT ![j] = Append(@, Ev("RematchStart", m.val))]
       /\ ready_seen' = [ready_seen EXCEPT ![j] = {}]
       /\ UNCHANGED <<players, player_states, countdowns>>

on_ready(j, m) ==
  LET pl == IF m.from \in DOMAIN players[j]
            THEN [players[j] EXCEPT ![m.from].ready = (m.val = 1)] ELSE players[j]
  IN /\ players' = [players EXCEPT ![j] = pl]
     /\ AllReadyStart(j, pl, "inbound")
     /\ ready_seen' = [ready_seen EXCEPT ![j] = IF m.val = 1 THEN @ \cup {m.from} ELSE @ \ {m.from}]
     /\ UNCHANGED <<seed, rematch_requested, player_states>>

\* a GameStart branch that sends the event and forgets the status
on_game_start_keeps_status(j, m) ==
  /\ CanEmit(j, 1)
  /\ log' = [log EXCEPT ![j] = Append(@, Ev("GameStart", 0))]
  /\ UNCHANGED <<status, seed, rematch_requested, players, player_states, countdowns, ready_seen>>

on_game_start(j, m) ==
  /\ CanEmit(j, 1)
  /\ status' = [status EXCEPT ![j] = "Playing"]
  /\ log' = [log EXCEPT ![j] = Append(@, Ev("GameStart", 0))]
  /\ UNCHANGED <<seed, rematch_requested, players, player_states, countdowns, ready_seen>>

\* a callback that dispatches the instance's own events too
HandleOwnToo(m) ==
  /\ BagIn(m, net)
  /\ net' = Taken(net, m)
  /\ IF m.from = m.to THEN Did("on_own", m.to, m.type) ELSE Did("on_" \o m.type, m.to, "Ok")
  /\ CASE m.type = "join" -> on_join(m.to, m)
      [] m.type = "state" -> on_state(m.to, m)
      [] m.type = "heartbeat" -> on_heartbeat(m.to, m)
      [] m.type = "gameover" -> on_game_over(m.to, m)
      [] m.type = "rematch_request" -> on_rematch_request(m.to, m)
      [] m.type = "rematch_accept" -> on_rematch_accept(m.to, m)
      [] m.type = "ready" -> on_ready(m.to, m)
      [] m.type = "gamestart" -> on_game_start(m.to, m)
  /\ UNCHANGED <<env_vars, expires_at, conc_vars, now, room_id, is_host, last_state_update, subs, hb_tasks,
                 presence_tasks, rejoin, snapshot>>

\* The subscription callback: own events are skipped, the others dispatched.
Handle(m) ==
  /\ BagIn(m, net)
  /\ net' = Taken(net, m)
  /\ IF m.from = m.to
     THEN \* "Skip own events"
          /\ Did("on_own", m.to, m.type)
          /\ UNCHANGED <<status, seed, rematch_requested, players, player_states, log, countdowns, ready_seen>>
     ELSE /\ Did("on_" \o m.type, m.to, "Ok")
          /\ CASE m.type = "join" -> on_join(m.to, m)
               [] m.type = "state" -> on_state(m.to, m)
               [] m.type = "heartbeat" -> on_heartbeat(m.to, m)
               [] m.type = "gameover" -> on_game_over(m.to, m)
               [] m.type = "rematch_request" -> on_rematch_request(m.to, m)
               [] m.type = "rematch_accept" -> on_rematch_accept(m.to, m)
               [] m.type = "ready" -> on_ready(m.to, m)
               [] m.type = "gamestart" -> on_game_start(m.to, m)
  /\ UNCHANGED <<env_vars, expires_at, conc_vars, now, room_id, is_host, last_state_update, subs, hb_tasks,
                 presence_tasks, rejoin, snapshot>>

Deliver == \E m \in BagToSet(net) : Handle(m)

\* A relay drops an ephemeral.
Drop ==
  /\ \E m \in BagToSet(net) : net' = Taken(net, m) /\ Did("drop", m.to, m.type)
  /\ UNCHANGED <<env_vars, expires_at, conc_vars, ready_seen, now, room_vars, players, player_states, last_state_update, log,
                 subs, hb_tasks, presence_tasks, countdowns, rejoin, snapshot>>

\* ------------------------------------------------------------ background tasks
\* a heartbeat loop that a failed publish ends
HeartbeatStopsOnFailure(i) ==
  \E ok \in Oks :
    LET sent == publish_ephemeral(net, subs, room_id[i], i, "heartbeat", now_ms(i))
    IN /\ hb_tasks[i] > 0
       /\ ~Locked(i)
       /\ IF room_id[i] # None /\ ok
          THEN NetFits(sent) /\ net' = sent /\ Did("heartbeat", i, "Ok") /\ UNCHANGED hb_tasks
          ELSE /\ hb_tasks' = [hb_tasks EXCEPT ![i] = @ - 1]
               /\ Did("heartbeat", i, IF room_id[i] # None THEN "failed" ELSE "stopped")
               /\ UNCHANGED net
       /\ UNCHANGED <<env_vars, expires_at, conc_vars, ready_seen, now, room_vars, players, player_states, last_state_update, log,
                      subs, presence_tasks, countdowns, rejoin, snapshot>>

\* One tick of a task spawned by Arena::start_heartbeat: with a room it
\* publishes Heartbeat{timestamp: now_ms()} and only warns when that fails;
\* without a room it breaks out of its loop.
Heartbeat(i) ==
  \E ok \in Oks :
    LET sent == publish_ephemeral(net, subs, room_id[i], i, "heartbeat", now_ms(i))
    IN /\ hb_tasks[i] > 0
       /\ ~Locked(i)
       /\ IF room_id[i] = None
          THEN /\ hb_tasks' = [hb_tasks EXCEPT ![i] = @ - 1]
               /\ Did("heartbeat", i, "stopped")
               /\ UNCHANGED net
          ELSE IF ~ok
          THEN Did("heartbeat", i, "failed") /\ UNCHANGED <<net, hb_tasks>>
          ELSE NetFits(sent) /\ net' = sent /\ Did("heartbeat", i, "Ok") /\ UNCHANGED hb_tasks
       /\ UNCHANGED <<env_vars, expires_at, conc_vars, ready_seen, now, room_vars, players, player_states, last_state_update, log,
                      subs, presence_tasks, countdowns, rejoin, snapshot>>

\* `now - presence.last_seen > config.disconnect_threshold` on u64: for
\* last_seen > now the difference wraps to 2^64 - (last_seen - now), which is
\* above every threshold the model uses.
Stale(t, p) == IF t >= p.last_seen THEN t - p.last_seen > DisconnectThreshold ELSE TRUE

Perms(S) == {f \in [1..Cardinality(S) -> S] : \A a, b \in 1..Cardinality(S) : a # b => f[a] # f[b]}

\* a sweep that does not test is_host
PresenceUpdateAnyone(i) ==
  LET t == now_ms(i)
      to_remove == {q \in DOMAIN players[i] : Stale(t, players[i][q])}
      pl == Remove(players[i], to_remove)
  IN /\ presence_tasks[i] > 0
     /\ ~Locked(i)
     /\ room_id[i] # None
     /\ \/ /\ \E q \in DOMAIN players[i] : players[i][q].last_seen > t
           /\ presence_tasks' = [presence_tasks EXCEPT ![i] = @ - 1]
           /\ Did("presence_update", i, "panic")
           /\ UNCHANGED <<players, log, snapshot>>
        \/ /\ CanEmit(i, Cardinality(to_remove))
           /\ players' = [players EXCEPT ![i] = pl]
           /\ \E order \in Perms(to_remove) :
                log' = [log EXCEPT ![i] = @ \o [k \in 1..Len(order) |-> Ev("PlayerLeave", order[k])]]
           /\ \E ok \in Oks :
                snapshot' = IF ok THEN [snapshot EXCEPT ![room_id[i]] =
                                          RoomSnapshot(status[i], seed[i], i, expires_at[i], pl)]
                            ELSE snapshot
           /\ Did("presence_update", i, "Ok")
           /\ UNCHANGED presence_tasks
     /\ UNCHANGED <<env_vars, expires_at, conc_vars, ready_seen, now, room_vars, player_states, last_state_update, subs, hb_tasks,
                    countdowns, rejoin, net>>

\* One tick of a task spawned by Arena::start_presence_update, on a host in a
\* room (on any other instance the tick does nothing).  With overflow checks
\* (debug build) the subtraction panics for last_seen > now and the task ends.
PresenceUpdate(i) ==
  LET t == now_ms(i)
      to_remove == {q \in DOMAIN players[i] : Stale(t, players[i][q])}
      pl == Remove(players[i], to_remove)
  IN /\ presence_tasks[i] > 0
     /\ ~Locked(i)
     /\ room_id[i] # None /\ is_host[i]
     /\ \/ /\ \E q \in DOMAIN players[i] : players[i][q].last_seen > t
           /\ presence_tasks' = [presence_tasks EXCEPT ![i] = @ - 1]
           /\ Did("presence_update", i, "panic")
           /\ UNCHANGED <<players, log, snapshot>>
        \/ /\ CanEmit(i, Cardinality(to_remove))
           /\ players' = [players EXCEPT ![i] = pl]
           /\ \E order \in Perms(to_remove) :
                log' = [log EXCEPT ![i] = @ \o [k \in 1..Len(order) |-> Ev("PlayerLeave", order[k])]]
           /\ \E ok \in Oks :
                snapshot' = IF ok THEN [snapshot EXCEPT ![room_id[i]] =
                                          RoomSnapshot(status[i], seed[i], i, expires_at[i], pl)]
                            ELSE snapshot
           /\ Did("presence_update", i, "Ok")
           /\ UNCHANGED presence_tasks
     /\ UNCHANGED <<env_vars, expires_at, conc_vars, ready_seen, now, room_vars, player_states, last_state_update, subs, hb_tasks,
                    countdowns, rejoin, net>>

\* One step of a countdown task: the task spawned by check_all_ready ("local")
\* sends CountdownTick(i) for i = N..1, the one spawned by the Ready branch of
\* the handler ("inbound") sends CountdownTick(remaining - 1); both end with
\* status = Playing and GameStart.
TickValue(c) == IF c.kind = "local" THEN c.left ELSE c.left - 1

CountdownStep(i) ==
  \E c \in BagToSet(countdowns[i]) :
    /\ CanEmit(i, 1)
    /\ IF c.left > 0
       THEN /\ log' = [log EXCEPT ![i] = Append(@, Ev("CountdownTick", TickValue(c)))]
            /\ countdowns' = [countdowns EXCEPT ![i] =
                                (@ (-) SetToBag({c})) (+) SetToBag({[c EXCEPT !.left = @ - 1]})]
            /\ Did("countdown_tick", i, "Ok")
            /\ UNCHANGED status
       ELSE /\ log' = [log EXCEPT ![i] = Append(@, Ev("GameStart", 0))]
            /\ status' = [status EXCEPT ![i] = "Playing"]
            /\ countdowns' = [countdowns EXCEPT ![i] = @ (-) SetToBag({c})]
            /\ Did("countdown_end", i, "Ok")
    /\ UNCHANGED <<env_vars, expires_at, conc_vars, ready_seen, now, room_id, is_host, seed, rematch_requested, players,
                   player_states, last_state_update, subs, hb_tasks, presence_tasks, rejoin,
                   snapshot, net>>

\* One re-publish of the task Arena::join spawns (+500 ms, +1500 ms).
Rejoin(i) ==
  \E c \in BagToSet(rejoin[i]) :
    LET sent == publish_ephemeral(net, subs, c.room, i, "join", i)
    IN /\ NetFits(sent)
       /\ net' = sent
       /\ rejoin' = [rejoin EXCEPT ![i] =
                       IF c.left > 1
                       THEN (@ (-) SetToBag({c})) (+) SetToBag({[c EXCEPT !.left = @ - 1]})
                       ELSE @ (-) SetToBag({c})]
       /\ Did("rejoin", i, "Ok")
       /\ UNCHANGED <<env_vars, expires_at, conc_vars, ready_seen, now, room_vars, players, player_states, last_state_update, log,
                      subs, hb_tasks, presence_tasks, countdowns, snapshot>>

\* Another client of the relay publishes a room-kind event with the room's tag
\* and a content that is no RoomEventContent; fetch_room filters by kind and
\* tag only.
Garble ==
  /\ \E r \in Rooms : snapshot[r] \notin {NoSnap, Garbage} /\ snapshot' = [snapshot EXCEPT ![r] = Garbage]
  /\ Did("garble", None, "Ok")
  /\ UNCHANGED <<env_vars, expires_at, conc_vars, ready_seen, now, room_vars, players,
                 player_states, last_state_update, log, subs, hb_tasks, presence_tasks,
                 countdowns, rejoin, net>>

\* A peer that is not one of the instances publishes a Rematch / Accept
\* without new_seed under the room's tag.
ForeignAccept ==
  /\ \E r \in Rooms :
       LET sent == publish_ephemeral(net, subs, r, Foreign, "rematch_accept", NoSeed)
       IN sent # net /\ NetFits(sent) /\ net' = sent
  /\ Did("foreign_accept", None, "Ok")
  /\ UNCHANGED <<env_vars, expires_at, conc_vars, ready_seen, now, room_vars, players,
                 player_states, last_state_update, log, subs, hb_tasks, presence_tasks,
                 countdowns, rejoin, snapshot>>

\* A third peer running the same join(): the room event it fetched passed the
\* tests, and it publishes its Join.
ForeignJoin ==
  /\ \E r \in Rooms :
       LET sent == publish_ephemeral(net, subs, r, Foreign, "join", Foreign)
       IN /\ JoinError(snapshot[r], now) = "Ok"
          /\ sent # net /\ NetFits(sent) /\ net' = sent
  /\ Did("foreign_join", None, "Ok")
  /\ UNCHANGED <<env_vars, expires_at, conc_vars, ready_seen, now, room_vars, players,
                 player_states, last_state_update, log, subs, hb_tasks, presence_tasks,
                 countdowns, rejoin, snapshot>>

\* A peer publishes a Join whose player_pubkey is not its own key: the
\* payload is chosen by the author, the relay checks the signature only.
ForgedJoin ==
  /\ \E r \in Rooms, pk \in Inst :
       LET sent == publish_ephemeral(net, subs, r, Foreign, "join", pk)
       IN sent # net /\ NetFits(sent) /\ net' = sent
  /\ Did("forged_join", None, "Ok")
  /\ UNCHANGED <<env_vars, expires_at, conc_vars, ready_seen, now, room_vars, players,
                 player_states, last_state_update, log, subs, hb_tasks, presence_tasks,
                 countdowns, rejoin, snapshot>>

\* Wall-clock time passes.
Tick ==
  /\ now < StartTime + MaxTime
  /\ now' = now + 1
  /\ Did("tick", None, "Ok")
  /\ UNCHANGED <<env_vars, expires_at, conc_vars, ready_seen, room_vars, players, player_states, last_state_update, log,
                 subs, hb_tasks, presence_tasks, countdowns, rejoin, snapshot, net>>

\* ------------------------------------------------------------------ locks
\* room_state, players and player_states are tokio RwLocks.  A code path is
\* the sequence of its lock operations: read and write are the awaits that
\* take a guard, drop is the end of the guard's life (an explicit drop, the
\* end of its block, or the end of the statement of a temporary), and await
\* is a publish or an event_tx.send made while a guard is held.
read(l) == [op |-> "read", l |-> l]
write(l) == [op |-> "write", l |-> l]
drop(l) == [op |-> "drop", l |-> l]
await == [op |-> "await", l |-> "none"]

create_locks ==
  <<write("room_state"), drop("room_state"), write("players"), drop("players"),
    read("players"), drop("players"), write("room_state"), drop("room_state")>>

check_auto_start_locks ==
  <<read("players"), drop("players"), write("room_state"), await, drop("room_state")>>

join_locks ==
  <<write("room_state"), drop("room_state"), write("players"), drop("players"),
    write("room_state"), drop("room_state")>> \o check_auto_start_locks

\* leave() clearing the maps before it takes room_state
leave_clears_first ==
  <<write("players"), write("player_states"), write("room_state"),
    drop("room_state"), drop("player_states"), drop("players")>>

leave_locks ==
  <<write("room_state"), write("players"), drop("players"),
    write("player_states"), drop("player_states"), drop("room_state")>>

delete_room_locks == <<read("room_state"), await, drop("room_state")>> \o leave_locks

\* send_state, and one round of the heartbeat task
send_state_locks == <<read("room_state"), await, drop("room_state")>>

\* send_game_over and request_rematch
send_game_over_locks ==
  <<read("room_state"), await, drop("room_state"), write("room_state"), drop("room_state")>>

reset_for_rematch_locks ==
  <<write("room_state"), write("players"), write("player_states"), drop("player_states"),
    await, drop("players"), drop("room_state")>>

accept_rematch_locks == <<read("room_state"), await, drop("room_state")>> \o reset_for_rematch_locks

check_all_ready_locks ==
  <<read("players"), drop("players"), write("room_state"), drop("room_state")>>

send_ready_locks ==
  <<read("room_state"), await, write("players"), drop("room_state"), drop("players")>>
    \o check_all_ready_locks

start_game_locks ==
  <<read("room_state"), await, drop("room_state"), write("room_state"), await, drop("room_state")>>

on_join_locks ==
  <<write("players"), drop("players"), read("players"), drop("players"),
    write("room_state"), await, drop("room_state")>>

on_state_locks ==
  <<write("players"), drop("players"), write("player_states"), drop("player_states")>>

on_heartbeat_locks == <<write("players"), drop("players")>>

\* the GameOver and GameStart handlers, and the end of a countdown task
on_game_over_locks == <<write("room_state"), drop("room_state")>>

on_rematch_accept_locks == <<write("room_state"), await, drop("room_state")>>

on_ready_locks ==
  <<write("players"), drop("players"), read("players"), drop("players"),
    write("room_state"), drop("room_state")>>

\* one round of the presence-update task with a stale player
presence_update_locks ==
  <<read("room_state"), read("players"), drop("players"), write("players"), drop("players"), await,
    read("players"), drop("players"), await, drop("room_state")>>

CodePaths ==
  {create_locks, join_locks, leave_locks, delete_room_locks, send_state_locks, send_game_over_locks,
   accept_rematch_locks, send_ready_locks, start_game_locks, on_join_locks, on_state_locks,
   on_heartbeat_locks, on_game_over_locks, on_rematch_accept_locks, on_ready_locks,
   presence_update_locks}

\* the operation task t is at
At(t) == running[t].path[running[t].pc]

Acquiring(t) == running[t] # Finished /\ At(t).op \in {"read", "write"}

\* the guards task t holds: taken before its position and not dropped since
Held(t) ==
  LET path == running[t].path
      pc == running[t].pc
  IN {path[k] : k \in {n \in 1..(pc - 1) :
                         /\ path[n].op \in {"read", "write"}
                         /\ \A j \in (n + 1)..(pc - 1) : path[j] # drop(path[n].l)}}

\* RwLock: any number of read guards, or one write guard
Free(l, op) ==
  \A u \in Tasks : \A g \in Held(u) : g.l = l => (op = "read" /\ g.op = "read")

Queued(t) == \E k \in 1..Len(lock_q[At(t).l]) : lock_q[At(t).l][k] = t

Advance(t) ==
  running' = [running EXCEPT ![t] = IF @.pc = Len(@.path) THEN Finished ELSE [@ EXCEPT !.pc = @ + 1]]

\* A method is called, a handler is spawned for an event, or a timer fires.
Start(t) ==
  /\ running[t] = Finished
  /\ \E path \in CodePaths : running' = [running EXCEPT ![t] = [path |-> path, pc |-> 1]]
  /\ UNCHANGED <<arena_vars, lock_q>>

\* l.read().await or l.write().await is polled for the first time: the guard
\* is taken if nobody holds or waits for the lock, else the task queues up.
Acquire(t) ==
  /\ Acquiring(t) /\ ~Queued(t)
  /\ IF lock_q[At(t).l] = <<>> /\ Free(At(t).l, At(t).op)
     THEN Advance(t) /\ UNCHANGED lock_q
     ELSE lock_q' = [lock_q EXCEPT ![At(t).l] = Append(@, t)] /\ UNCHANGED running
  /\ UNCHANGED arena_vars

\* The oldest waiter gets the guard once the lock allows it.
Granted(t) ==
  /\ Acquiring(t) /\ Queued(t)
  /\ Head(lock_q[At(t).l]) = t /\ Free(At(t).l, At(t).op)
  /\ lock_q' = [lock_q EXCEPT ![At(t).l] = Tail(@)]
  /\ Advance(t)
  /\ UNCHANGED arena_vars

\* A guard is dropped, or a publish or a send into a channel with room returns.
Proceed(t) ==
  /\ running[t] # Finished /\ At(t).op \in {"drop", "await"}
  /\ Advance(t)
  /\ UNCHANGED <<arena_vars, lock_q>>

Next ==
  \/ \E i \in Inst, r \in Rooms : Enter(i) /\ CreateRoom(i, r)
  \/ \E i \in Inst, r \in Rooms : Enter(i) /\ JoinRoom(i, r)
  \/ \E i \in Inst : Enter(i) /\ Leave(i)
  \/ \E i \in Inst : Enter(i) /\ DeleteRoom(i)
  \/ \E i \in Inst : Call(i) /\ SendState(i)
  \/ \E i \in Inst : Call(i) /\ SendStateCheck(i)
  \/ \E i \in Inst : SendStateStore(i) /\ UNCHANGED calls
  \/ \E i \in Inst : SendStatePublish(i) /\ UNCHANGED calls
  \/ \E i \in Inst : Enter(i) /\ SendGameOver(i)
  \/ \E i \in Inst : Enter(i) /\ RequestRematch(i)
  \/ \E i \in Inst : Enter(i) /\ AcceptRematch(i)
  \/ \E i \in Inst : Enter(i) /\ SendReady(i)
  \/ \E i \in Inst : Enter(i) /\ StartGame(i)
  \/ Deliver /\ UNCHANGED calls
  \/ Drop /\ UNCHANGED calls
  \/ \E i \in Inst : Heartbeat(i) /\ UNCHANGED calls
  \/ \E i \in Inst : PresenceUpdate(i) /\ UNCHANGED calls
  \/ \E i \in Inst : CountdownStep(i) /\ UNCHANGED calls
  \/ \E i \in Inst : Rejoin(i) /\ UNCHANGED calls
  \/ Garble /\ UNCHANGED calls
  \/ ForeignAccept /\ UNCHANGED calls
  \/ ForeignJoin /\ UNCHANGED calls
  \/ ForgedJoin /\ UNCHANGED calls
  \/ Tick /\ UNCHANGED calls
  \/ \E t \in Tasks : Start(t) \/ Acquire(t) \/ Granted(t) \/ Proceed(t)

Spec == Init /\ [][Next]_vars

\* ------------------------------------------------------- environments
\* Every application takes its events as they are sent.
Draining == drains = [i \in Inst |-> TRUE]

\* The default configuration: rooms never expire.
NoExpiry == room_expiry = 0

\* The full relation Next is too large to explore; each specification below
\* lets the environment use a part of the API: A creates the room, B joins it.

\* Start modes: ready flags, start_game, countdowns, the join re-publishes.
InitStart == Init /\ skew = [i \in Inst |-> 0] /\ ~faults /\ Draining /\ NoExpiry

NextStart ==
  \/ Enter("A") /\ Create("A")
  \/ Enter("B") /\ Join("B")
  \/ \E i \in Inst : Enter(i) /\ SendReady(i)
  \/ \E i \in Inst : Enter(i) /\ StartGame(i)
  \/ Deliver /\ UNCHANGED calls
  \/ \E i \in Inst : CountdownStep(i) /\ UNCHANGED calls
  \/ \E i \in Inst : Rejoin(i) /\ UNCHANGED calls

SpecStart == InitStart /\ [][NextStart]_vars

\* Presence: heartbeats, the host's reconciliation sweep, clocks that differ.
InitPresence == Init /\ skew["A"] = 0 /\ start_mode = "Host" /\ ~faults /\ Draining /\ NoExpiry

NextPresence ==
  \/ Enter("A") /\ Create("A")
  \/ Enter("B") /\ Join("B")
  \/ Deliver /\ UNCHANGED calls
  \/ \E i \in Inst : Heartbeat(i) /\ UNCHANGED calls
  \/ \E i \in Inst : PresenceUpdate(i) /\ UNCHANGED calls
  \/ Tick /\ UNCHANGED calls

SpecPresence == InitPresence /\ [][NextPresence]_vars

\* Room lifecycle: create, join, leave, delete_room, with game state exchanged.
InitLifecycle == Init /\ skew = [i \in Inst |-> 0] /\ faults /\ Draining /\ NoExpiry

NextLifecycle ==
  \/ Enter("A") /\ Create("A")
  \/ Enter("B") /\ Join("B")
  \/ \E i \in Inst : Enter(i) /\ Leave(i)
  \/ \E i \in Inst : Enter(i) /\ DeleteRoom(i)
  \/ \E i \in Inst : Call(i) /\ SendState(i)
  \/ Deliver /\ UNCHANGED calls
  \/ \E i \in Inst : Rejoin(i) /\ UNCHANGED calls

SpecLifecycle == InitLifecycle /\ [][NextLifecycle]_vars

\* Rematch: ready flags, game over, rematch request and acceptance.
InitRematch == Init /\ skew = [i \in Inst |-> 0] /\ ~faults /\ Draining /\ NoExpiry

NextRematch ==
  \/ Enter("A") /\ Create("A")
  \/ Enter("B") /\ Join("B")
  \/ \E i \in Inst : Enter(i) /\ SendReady(i)
  \/ \E i \in Inst : Enter(i) /\ SendGameOver(i)
  \/ \E i \in Inst : Enter(i) /\ RequestRematch(i)
  \/ \E i \in Inst : Enter(i) /\ AcceptRematch(i)
  \/ Deliver /\ UNCHANGED calls
  \/ \E i \in Inst : CountdownStep(i) /\ UNCHANGED calls

SpecRematch == InitRematch /\ [][NextRematch]_vars

\* Throttle: one application calls send_state from several tasks.
InitThrottle == Init /\ start_mode = "Host" /\ skew = [i \in Inst |-> 0] /\ ~faults /\ Draining /\ NoExpiry

NextThrottle ==
  \/ Enter("A") /\ Create("A")
  \/ Enter("B") /\ Join("B")
  \/ Call("A") /\ SendStateCheck("A")
  \/ SendStateStore("A") /\ UNCHANGED calls
  \/ SendStatePublish("A") /\ UNCHANGED calls
  \/ Deliver /\ UNCHANGED calls
  \/ Tick /\ UNCHANGED calls

SpecThrottle == InitThrottle /\ [][NextThrottle]_vars

\* Event queue: the application of A stops taking events.
InitQueue == Init /\ skew = [i \in Inst |-> 0] /\ ~faults /\ drains = [i \in Inst |-> i # "A"] /\ NoExpiry

NextQueue ==
  \/ Enter("A") /\ Create("A")
  \/ Enter("B") /\ Join("B")
  \/ \E i \in Inst : Enter(i) /\ StartGame(i)
  \/ \E i \in Inst : Enter(i) /\ SendReady(i)
  \/ Deliver /\ UNCHANGED calls
  \/ \E i \in Inst : Rejoin(i) /\ UNCHANGED calls

SpecQueue == InitQueue /\ [][NextQueue]_vars

\* Ready handshake: A creates, B joins once, then each calls send_ready(true)
\* once; every ephemeral is delivered.
InitReady == Init /\ start_mode = "Ready" /\ skew = [i \in Inst |-> 0] /\ ~faults /\ Draining /\ NoExpiry

NextReady ==
  \/ Enter("A") /\ Create("A")
  \/ Enter("B") /\ room_id["B"] = None /\ Join("B")
  \/ \E i \in Inst : /\ Enter(i)
                      /\ room_id["B"] # None
                      /\ i \notin ready_seen[i]
                      /\ SendReady(i)
                      /\ i \in ready_seen'[i]
  \/ Deliver /\ UNCHANGED calls
  \/ \E i \in Inst : Rejoin(i) /\ UNCHANGED calls

SpecReady == InitReady /\ [][NextReady]_vars

\* Joining: rooms that expire, get deleted, fill up, or whose event is garbled.
InitJoin == Init /\ start_mode = "Host" /\ skew = [i \in Inst |-> 0] /\ ~faults /\ Draining

NextJoin ==
  \/ Enter("A") /\ Create("A")
  \/ \E i \in Inst : Enter(i) /\ Join(i)
  \/ Enter("A") /\ DeleteRoom("A")
  \/ Deliver /\ UNCHANGED calls
  \/ PresenceUpdate("A") /\ UNCHANGED calls
  \/ Garble /\ UNCHANGED calls
  \/ Tick /\ UNCHANGED calls

SpecJoin == InitJoin /\ [][NextJoin]_vars

\* Game over: in and out of a room, with relay operations that may fail.
InitGameOver == Init /\ start_mode = "Host" /\ skew = [i \in Inst |-> 0] /\ faults /\ Draining /\ NoExpiry

NextGameOver ==
  \/ Enter("A") /\ Create("A")
  \/ Enter("B") /\ Join("B")
  \/ \E i \in Inst : Enter(i) /\ SendGameOver(i)
  \/ \E i \in Inst : Enter(i) /\ Leave(i)
  \/ Deliver /\ UNCHANGED calls
  \/ \E i \in Inst : Rejoin(i) /\ UNCHANGED calls

SpecGameOver == InitGameOver /\ [][NextGameOver]_vars

\* Echoes: every kind of ephemeral comes back to the instance that published it.
InitEcho == Init /\ start_mode = "Host" /\ skew = [i \in Inst |-> 0] /\ ~faults /\ Draining /\ NoExpiry

NextEcho ==
  \/ Enter("A") /\ Create("A")
  \/ Enter("B") /\ Join("B")
  \/ Call("A") /\ SendState("A")
  \/ Enter("A") /\ SendGameOver("A")
  \/ Enter("A") /\ RequestRematch("A")
  \/ Enter("A") /\ AcceptRematch("A")
  \/ Enter("A") /\ SendReady("A")
  \/ Enter("A") /\ StartGame("A")
  \/ Heartbeat("A") /\ UNCHANGED calls
  \/ Deliver /\ UNCHANGED calls
  \/ Rejoin("B") /\ UNCHANGED calls

SpecEcho == InitEcho /\ [][NextEcho]_vars

\* Clocks: presence with each instance's clock ahead of the other's or not.
InitClocks == Init /\ start_mode = "Host" /\ ~faults /\ Draining /\ NoExpiry

SpecClocks == InitClocks /\ [][NextPresence]_vars

\* One play session seen from the joiner: everything the host publishes, the
\* reconciliation sweep, and a foreign Accept without a seed.
InitSession == Init /\ start_mode = "Host" /\ skew = [i \in Inst |-> 0] /\ ~faults /\ Draining /\ NoExpiry

NextSession ==
  \/ NextEcho
  \/ PresenceUpdate("A") /\ UNCHANGED calls
  \/ ForeignAccept /\ UNCHANGED calls

SpecSession == InitSession /\ [][NextSession]_vars

\* Hosting: who writes the room event, with instances that create, join (their
\* own room too), leave and delete.
InitHost == Init /\ start_mode = "Host" /\ skew = [i \in Inst |-> 0] /\ ~faults /\ Draining /\ NoExpiry

NextHost ==
  \/ Enter("A") /\ Create("A")
  \/ \E i \in Inst : Enter(i) /\ Join(i)
  \/ \E i \in Inst : Enter(i) /\ Leave(i)
  \/ \E i \in Inst : Enter(i) /\ DeleteRoom(i)
  \/ PresenceUpdate("A") /\ UNCHANGED calls
  \/ Deliver /\ UNCHANGED calls
  \/ Tick /\ UNCHANGED calls

SpecHost == InitHost /\ [][NextHost]_vars

\* A crowded room: a third peer joins between two snapshots of the host.
InitCrowd == Init /\ start_mode = "Host" /\ skew = [i \in Inst |-> 0] /\ ~faults /\ Draining /\ NoExpiry

NextCrowd ==
  \/ Enter("A") /\ Create("A")
  \/ Enter("B") /\ Join("B")
  \/ ForeignJoin /\ UNCHANGED calls
  \/ PresenceUpdate("A") /\ UNCHANGED calls
  \/ Deliver /\ UNCHANGED calls
  \/ Tick /\ UNCHANGED calls

SpecCrowd == InitCrowd /\ [][NextCrowd]_vars

\* Heartbeats: in and out of a room, with publishes that may fail.
InitHeartbeat == Init /\ start_mode = "Host" /\ skew = [i \in Inst |-> 0] /\ faults /\ Draining /\ NoExpiry

NextHeartbeat ==
  \/ Enter("A") /\ Create("A")
  \/ Enter("B") /\ Join("B")
  \/ \E i \in Inst : Enter(i) /\ Leave(i)
  \/ \E i \in Inst : Heartbeat(i) /\ UNCHANGED calls
  \/ Deliver /\ UNCHANGED calls
  \/ Tick /\ UNCHANGED calls

SpecHeartbeat == InitHeartbeat /\ [][NextHeartbeat]_vars

\* Countdowns and leaving: Countdown mode with instances that leave the room.
InitCountdown == Init /\ start_mode = "Countdown" /\ skew = [i \in Inst |-> 0] /\ ~faults /\ Draining /\ NoExpiry

NextCountdown ==
  \/ Enter("A") /\ Create("A")
  \/ Enter("B") /\ Join("B")
  \/ \E i \in Inst : Enter(i) /\ SendReady(i)
  \/ \E i \in Inst : Enter(i) /\ Leave(i)
  \/ \E i \in Inst : CountdownStep(i) /\ UNCHANGED calls
  \/ Deliver /\ UNCHANGED calls

SpecCountdown == InitCountdown /\ [][NextCountdown]_vars

\* Order of ingestion: ready flags sent one after the other, with relay
\* operations that may fail (an instance whose subscribe failed gets no echo).
InitOrder == Init /\ start_mode = "Host" /\ skew = [i \in Inst |-> 0] /\ faults /\ Draining /\ NoExpiry

NextOrder ==
  \/ Enter("A") /\ Create("A")
  \/ Enter("B") /\ Join("B")
  \/ \E i \in Inst : Enter(i) /\ SendReady(i)
  \/ Deliver /\ UNCHANGED calls

SpecOrder == InitOrder /\ [][NextOrder]_vars

\* Creating a room after having been in another: B joins the first room,
\* leaves it and creates the second, with relay operations that may fail.
InitCreate == Init /\ start_mode = "Host" /\ skew = [i \in Inst |-> 0] /\ faults /\ Draining /\ NoExpiry

NextCreate ==
  \/ Enter("A") /\ CreateRoom("A", "r1")
  \/ Enter("B") /\ JoinRoom("B", "r1")
  \/ Enter("B") /\ Leave("B")
  \/ Enter("B") /\ CreateRoom("B", "r2")
  \/ ForeignJoin /\ UNCHANGED calls
  \/ Deliver /\ UNCHANGED calls

SpecCreate == InitCreate /\ [][NextCreate]_vars

\* The code paths of one Arena, three at a time, with room in the event queue.
InitLocks == Init /\ start_mode = "Auto" /\ skew = [i \in Inst |-> 0] /\ ~faults /\ Draining /\ NoExpiry

NextLocks ==
  \/ \E t \in Tasks : Start(t)
  \/ \E t \in Tasks : Acquire(t)
  \/ \E t \in Tasks : Granted(t)
  \/ \E t \in Tasks : Proceed(t)

SpecLocks == InitLocks /\ [][NextLocks]_vars

\* A host that gets ready, a peer, and an author that forges Joins.
InitForge == Init /\ start_mode = "Ready" /\ skew = [i \in Inst |-> 0] /\ ~faults /\ Draining /\ NoExpiry

NextForge ==
  \/ Enter("A") /\ Create("A")
  \/ Enter("B") /\ Join("B")
  \/ Enter("A") /\ SendReady("A")
  \/ ForgedJoin /\ UNCHANGED calls
  \/ Deliver /\ UNCHANGED calls

SpecForge == InitForge /\ [][NextForge]_vars

\* A peer that joins, leaves and joins again (reconnect), never joining while
\* it is in a room.
InitReenter == Init /\ start_mode = "Host" /\ skew = [i \in Inst |-> 0] /\ ~faults /\ Draining /\ NoExpiry

NextReenter ==
  \/ Enter("A") /\ Create("A")
  \/ room_id["B"] = None /\ Enter("B") /\ Join("B")
  \/ Enter("B") /\ Leave("B")
  \/ Enter("A") /\ SendState("A")
  \/ \E i \in Inst : Heartbeat(i) /\ UNCHANGED calls
  \/ Deliver /\ UNCHANGED calls

SpecReenter == InitReenter /\ [][NextReenter]_vars


\* ==================================================================== claims
Last(q) == q[Len(q)]

Appended(i) == IF Len(log'[i]) >= Len(log[i]) /\ SubSeq(log'[i], 1, Len(log[i])) = log[i]
               THEN SubSeq(log'[i], Len(log[i]) + 1, Len(log'[i]))
               ELSE log'[i]

Has(q, e) == \E k \in 1..Len(q) : q[k].e = e

\* C1: right after leave() returns, and right after delete_room() returns Ok,
\* the instance has status Idle, no room_id, is_host false, and empty players
\* and player_states.
C1_IdleAfterLeave ==
  (last.op = "leave" \/ (last.op = "delete_room" /\ last.res = "Ok")) =>
    /\ status[last.i] = "Idle"
    /\ room_id[last.i] = None
    /\ ~is_host[last.i]
    /\ players[last.i] = Empty
    /\ player_states[last.i] = Empty

\* The host deleted its room after it had stored a peer's game state.
C1_Witness ==
  /\ last = [op |-> "delete_room", i |-> "A", res |-> "Ok"]
  /\ Has(log["A"], "PlayerState")
  /\ Has(log["A"], "PlayerJoin")

\* C2: while status is Waiting, Joining, Ready, Playing or Finished, the
\* instance's own pubkey is a key of its players map.
C2_SelfInPlayers ==
  \A i \in Inst :
    status[i] \in {"Waiting", "Joining", "Ready", "Playing", "Finished"} => i \in DOMAIN players[i]

\* GameStart events of the Auto start (the count reaching max_players): the one
\* join() sends first, and those the Join branch sends after PlayerJoin.
AutoStarts(i) == {k \in 1..Len(log[i]) :
                    /\ log[i][k].e = "GameStart"
                    /\ IF k = 1 THEN ~is_host[i] ELSE log[i][k - 1].e = "PlayerJoin"}

\* C3: in Auto mode an instance emits the GameStart of a start at most once, and
\* its status is Playing right after the emission.
C3_AutoStartOnce ==
  (start_mode = "Auto" /\ \A j \in Inst : Callbacks(j) <= 1) =>
    /\ \A i \in Inst : Cardinality(AutoStarts(i)) <= 1
    /\ (last.op \in {"join", "on_join"} /\ last.res = "Ok" /\ Has(log[last.i], "GameStart")) =>
         status[last.i] = "Playing"

\* C4: in Ready mode every GameStart in an instance's events directly follows
\* the AllReady of its start sequence.
C4_AllReadyFirst ==
  start_mode = "Ready" =>
    \A i \in Inst : \A k \in 1..Len(log[i]) :
      log[i][k].e = "GameStart" => k > 1 /\ log[i][k - 1].e = "AllReady"

\* C5: in Ready mode no step sends GameStart or moves status to Playing while a
\* player of the instance has ready = false.
C5_NoStartUnready ==
  [][\A i \in Inst :
       (/\ start_mode = "Ready"
        /\ \/ Has(Appended(i), "GameStart")
           \/ status[i] # "Playing" /\ status'[i] = "Playing")
       => AllReadyIn(players'[i])]_vars


\* The events of one countdown start sequence, in order.
StartSequence == <<Ev("AllReady", 0), Ev("CountdownStart", CountdownSeconds)>>
                 \o [k \in 1..CountdownSeconds |-> Ev("CountdownTick", CountdownSeconds - k)]
                 \o <<Ev("GameStart", 0)>>

StartKinds == {"AllReady", "CountdownStart", "CountdownTick", "GameStart"}

Count(q, x, m) == Cardinality({k \in 1..m : q[k].e = x.e /\ q[k].v = x.v})

\* q, cut down to the start events, is an interleaving of runs of
\* StartSequence, each complete or cut short at its end.
StartRuns(q) ==
  /\ \A k \in 1..Len(q) :
       q[k].e \in StartKinds =>
         \E n \in 1..Len(StartSequence) : q[k].e = StartSequence[n].e /\ q[k].v = StartSequence[n].v
  /\ \A m \in 1..Len(q) : \A n \in 2..Len(StartSequence) :
       Count(q, StartSequence[n], m) <= Count(q, StartSequence[n - 1], m)

\* C6: in Countdown mode the start events of an instance are AllReady,
\* CountdownStart(N), CountdownTick(N-1), ..., CountdownTick(0), GameStart per
\* start sequence, and status moves to Playing only with the GameStart.
C6_CountdownSequence ==
  [][start_mode = "Countdown" =>
       \A i \in Inst :
         /\ StartRuns(log'[i])
         /\ (status[i] # "Playing" /\ status'[i] = "Playing") => Has(Appended(i), "GameStart")]_vars

\* A reconciliation sweep of host i has just run.
Swept(i) == last'.op = "presence_update" /\ last'.i = i

\* C7: a sweep removes exactly the players with now - last_seen above the
\* disconnect threshold and sends one PlayerLeave for each of them, and none
\* for anyone else.
C7_SweepDropsStale ==
  [][\A i \in Inst :
       Swept(i) =>
         LET stale == {q \in DOMAIN players[i] :
                         now_ms(i) - players[i][q].last_seen > DisconnectThreshold}
             sent == Appended(i)
         IN /\ DOMAIN players'[i] = DOMAIN players[i] \ stale
            /\ \A k \in 1..Len(sent) : sent[k].e = "PlayerLeave"
            /\ \A q \in Inst :
                 Cardinality({k \in 1..Len(sent) : sent[k].v = q}) = IF q \in stale THEN 1 ELSE 0]_vars

\* C8: host A in its room, B last seen longer ago than the threshold: the
\* sweep removes B alone, sends PlayerLeave(B) and nothing else, and the
\* snapshot it publishes lists exactly A.
C8_SweepDropsOnlyB ==
  [][(/\ Swept("A")
      /\ last'.res = "Ok"
      /\ DOMAIN players["A"] = {"A", "B"}
      /\ now_ms("A") >= players["A"]["B"].last_seen
      /\ now_ms("A") - players["A"]["B"].last_seen > DisconnectThreshold)
     => /\ DOMAIN players'["A"] = {"A"}
        /\ Appended("A") = <<Ev("PlayerLeave", "B")>>
        /\ snapshot' # snapshot => DOMAIN snapshot'[room_id["A"]].players = {"A"}]_vars

\* C9: right after accept_rematch() returned Ok, and right after a
\* Rematch.Accept with new_seed was ingested, the instance has the new seed,
\* status Ready, rematch_requested false, every ready flag false, and
\* RematchStart(new_seed) as its newest event.
C9_RematchReset ==
  ((last.op = "accept_rematch" /\ last.res = "Ok") \/ last.op = "on_rematch_accept") =>
    /\ status[last.i] = "Ready"
    /\ ~rematch_requested[last.i]
    /\ Len(log[last.i]) > 0
    /\ Last(log[last.i]) = Ev("RematchStart", seed[last.i])
    /\ \A q \in DOMAIN players[last.i] : ~players[last.i][q].ready

\* The events instance i sent since its newest rematch reset.
SinceReset(q) ==
  LET resets == {k \in 1..Len(q) : q[k].e = "RematchStart"}
  IN IF resets = {} THEN q
     ELSE SubSeq(q, (CHOOSE k \in resets : \A n \in resets : n <= k) + 1, Len(q))

\* Instance i sends GameStart or moves to Playing in this step.
Starts(i) == Has(Appended(i), "GameStart") \/ (status[i] # "Playing" /\ status'[i] = "Playing")

\* C10: in Ready and Countdown mode, once an instance has been reset for a
\* rematch, it finds all players ready only when each of its players has its
\* Ready(true) sent or ingested after the reset, and it sends GameStart or moves
\* to Playing only after an AllReady that follows the reset.
C10_StartAnewAfterReset ==
  [][\A i \in Inst :
       (start_mode \in {"Ready", "Countdown"} /\ Has(log[i], "RematchStart")) =>
         /\ Has(Appended(i), "AllReady") => (DOMAIN players'[i] \subseteq ready_seen'[i])
         /\ Starts(i) => Has(SinceReset(log'[i]), "AllReady")]_vars

\* C11: the State ephemerals an instance published were admitted by the
\* throttle at clock readings at least state_throttle apart, however its
\* send_state calls overlap.
C11_ThrottleSpacing ==
  \A i \in Inst : \A k, l \in 1..Len(state_sent[i]) :
    k < l => state_sent[i][l] - state_sent[i][k] >= StateThrottle

\* C12: a send_state call made without an active room returns NotInRoom.
C12_NotInRoomAlways ==
  (last.op = "send_state" /\ room_id[last.i] = None) => last.res = "NotInRoom"

\* C13: no producer of application events waits on a full event queue.
C13_ProducersNeverWait == \A i \in Inst : parked[i] = {}

\* Both instances called send_ready(true), and nothing is left to deliver or
\* to re-publish.
HandshakeDone ==
  /\ \A i \in Inst : i \in ready_seen[i]
  /\ net = EmptyBag
  /\ \A i \in Inst : rejoin[i] = EmptyBag

\* C14: in Ready mode, once A created, B joined, both called send_ready(true)
\* and every ephemeral was delivered, each instance has sent AllReady followed
\* by GameStart and has status Playing.
C14_BothStart ==
  HandshakeDone =>
    \A i \in Inst :
      /\ status[i] = "Playing"
      /\ \E k \in 1..(Len(log[i]) - 1) : log[i][k].e = "AllReady" /\ log[i][k + 1].e = "GameStart"

\* This step is the call or handler op of instance i.
Ran(op, i) == last'.op = op /\ last'.i = i

\* C15: in Host mode start_game() on an instance that is not the host returns
\* NotAuthorized, publishes nothing, sends no event and leaves status as it
\* was; on the host it publishes a GameStart ephemeral, sets status to Playing
\* and sends GameStart; an instance that ingests that ephemeral has status
\* Playing.
C15_HostStart ==
  [][start_mode = "Host" =>
       \A i \in Inst :
         /\ (Ran("start_game", i) /\ ~is_host[i]) =>
              /\ last'.res = "NotAuthorized"
              /\ net' = net
              /\ log' = log
              /\ status' = status
         /\ (Ran("start_game", i) /\ is_host[i] /\ room_id[i] # None) =>
              /\ last'.res = "Ok"
              /\ net' = publish_ephemeral(net, subs, room_id[i], i, "gamestart", 0)
              /\ status'[i] = "Playing"
              /\ Appended(i) = <<Ev("GameStart", 0)>>
         /\ Ran("on_gamestart", i) => status'[i] = "Playing"]_vars

\* Host mode: B ingested the host's GameStart and both are Playing.
C15_Witness ==
  /\ start_mode = "Host"
  /\ last = [op |-> "on_gamestart", i |-> "B", res |-> "Ok"]
  /\ status["A"] = "Playing"
  /\ status["B"] = "Playing"
  /\ Has(log["B"], "GameStart")

\* What join must return for the room event it fetched.
JoinResult(i) ==
  LET snap == snapshot["r1"]
  IN IF snap = NoSnap THEN "RoomNotFound"
     ELSE IF snap = Garbage THEN "InvalidRoomData"
     ELSE IF snap.status = "Deleted" THEN "RoomDeleted"
     ELSE IF snap.expires_at # {} /\ (\A e \in snap.expires_at : e < now_ms(i)) THEN "RoomExpired"
     ELSE IF Cardinality(DOMAIN snap.players) >= snap.max_players THEN "RoomFull"
     ELSE "Ok"

\* C16: join fails with RoomNotFound, InvalidRoomData, RoomDeleted, RoomExpired
\* or RoomFull, tested in that order, and a failed join leaves RoomState,
\* players and player_states as they were and publishes no Join.
C16_JoinErrors ==
  [][\A i \in Inst :
       Ran("join", i) =>
         /\ last'.res = JoinResult(i)
         /\ JoinResult(i) # "Ok" =>
              /\ <<room_id, status, is_host, seed, rematch_requested, expires_at>>'
                   = <<room_id, status, is_host, seed, rematch_requested, expires_at>>
              /\ players' = players
              /\ player_states' = player_states
              /\ net' = net]_vars

\* B, in the room, tried to join again after the host's snapshot listed both.
C16_Witness ==
  /\ last = [op |-> "join", i |-> "B", res |-> "RoomFull"]
  /\ room_id["B"] = "r1"
  /\ DOMAIN players["B"] = {"A", "B"}

\* The state an instance keeps about its room.
LocalRoom(i) == <<room_id[i], status[i], is_host[i], seed[i], rematch_requested[i],
                  expires_at[i], players[i], player_states[i]>>

\* C17: delete_room on a non-host returns NotAuthorized, publishes nothing and
\* changes nothing; on the host it publishes the room event with status Deleted
\* and no players and then clears the local state as leave() does; when the
\* publish fails the local state stays as it was.
C17_DeleteRoom ==
  [][\A i \in Inst :
       Ran("delete_room", i) =>
         /\ ~is_host[i] =>
              /\ last'.res = "NotAuthorized"
              /\ snapshot' = snapshot /\ net' = net
              /\ \A j \in Inst : LocalRoom(j)' = LocalRoom(j)
         /\ is_host[i] /\ last'.res = "Ok" =>
              /\ snapshot'[room_id[i]].status = "Deleted"
              /\ snapshot'[room_id[i]].players = Empty
              /\ room_id'[i] = None /\ status'[i] = "Idle" /\ ~is_host'[i]
              /\ players'[i] = Empty /\ player_states'[i] = Empty
         /\ is_host[i] /\ last'.res # "Ok" =>
              /\ snapshot' = snapshot
              /\ LocalRoom(i)' = LocalRoom(i)]_vars

\* The host deleted its room while B was in it.
C17_Witness ==
  /\ last = [op |-> "delete_room", i |-> "A", res |-> "Ok"]
  /\ snapshot["r1"].status = "Deleted"
  /\ room_id["A"] = None
  /\ room_id["B"] = "r1"

\* C18: send_game_over outside a room fails with NotInRoom and leaves status
\* alone; in a room it publishes the GameOver ephemeral and sets status to
\* Finished, and status keeps its value when the publish fails.
C18_SendGameOver ==
  [][\A i \in Inst :
       Ran("send_game_over", i) =>
         /\ room_id[i] = None =>
              last'.res = "NotInRoom" /\ status' = status /\ net' = net
         /\ room_id[i] # None /\ last'.res = "Ok" =>
              /\ net' = publish_ephemeral(net, subs, room_id[i], i, "gameover", 0)
              /\ status'[i] = "Finished"
              /\ \A j \in Inst \ {i} : status'[j] = status[j]
         /\ room_id[i] # None /\ last'.res # "Ok" =>
              last'.res = "Nostr" /\ status' = status /\ net' = net]_vars

\* B ended its game and the host has the GameOver in flight.
C18_Witness ==
  /\ last = [op |-> "send_game_over", i |-> "B", res |-> "Ok"]
  /\ status["B"] = "Finished"
  /\ \E m \in BagToSet(net) : m.type = "gameover" /\ m.from = "B" /\ m.to = "A"

\* C19: an ephemeral whose author is the receiving instance itself is dropped
\* when it arrives: RoomState, players and player_states of every instance
\* stay as they were, no event is emitted and no countdown is started,
\* whatever the payload.
C19_OwnEventsDiscarded ==
  [][\A i \in Inst :
       Ran("on_own", i) =>
         /\ \A j \in Inst : LocalRoom(j)' = LocalRoom(j)
         /\ log' = log
         /\ countdowns' = countdowns]_vars

\* The host, in a finished game it shares with B, got its own rematch request back.
C19_Witness ==
  /\ last = [op |-> "on_own", i |-> "A", res |-> "rematch_request"]
  /\ status["A"] = "Finished"
  /\ "B" \in DOMAIN players["A"]

\* C20: the last_seen of a player that stays in an instance's players map
\* never decreases, whatever step is taken; a heartbeat with a timestamp older
\* than the stored value does not lower it.
C20_LastSeenMonotone ==
  [][\A i \in Inst : \A q \in DOMAIN players[i] \cap DOMAIN players'[i] :
       players'[i][q].last_seen >= players[i][q].last_seen]_vars

\* The steps that may write the seed of instance i: a successful create or
\* join, accept_rematch, and the ingestion of an Accept that carries a seed.
SeedWriter(i) ==
  \/ last'.i = i /\ last'.op \in {"create", "join", "accept_rematch"} /\ last'.res = "Ok"
  \/ /\ Ran("on_rematch_accept", i)
     /\ \E m \in BagToSet(net) : /\ m.to = i /\ m.type = "rematch_accept" /\ m.val # NoSeed
                                 /\ net' = Taken(net, m)

C22_HostPublishesOnly ==
  [][snapshot' # snapshot =>
       \E i \in Inst :
         /\ last'.i = i
         /\ \/ last'.op = "create" /\ is_host'[i]
            \/ last'.op \in {"delete_room", "presence_update"} /\ is_host[i]
         /\ \A r \in Rooms : snapshot'[r] # snapshot[r] => snapshot'[r].host_pubkey = i]_vars

\* The host's sweep republished the room with both players while B, who
\* joined, is not host.
C22_Witness ==
  /\ last = [op |-> "presence_update", i |-> "A", res |-> "Ok"]
  /\ is_host["A"] /\ ~is_host["B"] /\ room_id["B"] = "r1"
  /\ snapshot["r1"].host_pubkey = "A"
  /\ DOMAIN snapshot["r1"].players = {"A", "B"}

\* C23: when an instance has just accepted a join (its own join() returned Ok,
\* or it ingested a Join) its players map holds at most max_players entries.
C23_RoomNeverOverfull ==
  (last.op = "on_join" \/ (last.op = "join" /\ last.res = "Ok"))
    => Cardinality(DOMAIN players[last.i]) <= MaxPlayers

\* C24: a GameStart ingested by an instance whose status is already Playing
\* leaves the status Playing and sends no further GameStart to the application.
C24_DuplicateGameStart ==
  [][\A i \in Inst :
       (Ran("on_gamestart", i) /\ status[i] = "Playing")
         => status'[i] = "Playing" /\ log'[i] = log[i]]_vars

\* C25: outside Host mode an ingested GameStart does not start the game: it
\* neither writes the status nor sends GameStart to the application.
C25_GameStartHostModeOnly ==
  [][\A i \in Inst :
       (Ran("on_gamestart", i) /\ start_mode # "Host")
         => status'[i] = status[i] /\ log'[i] = log[i]]_vars

\* C26: a tick of a heartbeat task of an instance in a room publishes
\* Heartbeat{timestamp = now} and keeps the task running, also when the
\* publish fails; a tick of a task whose instance has no room ends the task
\* and publishes nothing.
C26_HeartbeatLoop ==
  [][\A i \in Inst :
       Ran("heartbeat", i) =>
         /\ room_id[i] # None =>
              /\ hb_tasks' = hb_tasks
              /\ last'.res \in {"Ok", "failed"}
              /\ last'.res = "Ok" =>
                   net' = publish_ephemeral(net, subs, room_id[i], i, "heartbeat", now + skew[i])
              /\ last'.res = "failed" => net' = net
         /\ room_id[i] = None =>
              /\ hb_tasks'[i] = hb_tasks[i] - 1
              /\ net' = net]_vars

\* B's heartbeat task ended at its first tick after B left; the host's runs on.
C26_Witness ==
  /\ last = [op |-> "heartbeat", i |-> "B", res |-> "stopped"]
  /\ room_id["B"] = None
  /\ hb_tasks["B"] = 0
  /\ hb_tasks["A"] > 0

\* C27: once an instance has no room its countdown tasks are over: none of
\* them ticks, sets the status to Playing or sends GameStart.
C27_NoCountdownAfterLeave ==
  [][\A i \in Inst :
       room_id[i] = None =>
         ~(last'.i = i /\ last'.op \in {"countdown_tick", "countdown_end"})]_vars

\* C28: the ephemerals an instance received from its peers take effect in
\* their arrival order: the handler that takes effect is always the one of the
\* pending peer ephemeral that arrived first (the instance's own ephemerals
\* have no effect and do not count).
C28_ArrivalOrder ==
  [][LET Handled(m) == net' = Taken(net, m) /\ last'.i = m.to /\ last'.op = "on_" \o m.type
         First(m) == \A x \in Pending(net, m.to) : x.from # x.to => m.n <= x.n
     IN (\E m \in BagToSet(net) : Handled(m)) => \E m \in BagToSet(net) : Handled(m) /\ First(m)]_vars

\* The steps in which an ephemeral of a peer takes effect.
HandlerOps == {"on_join", "on_state", "on_heartbeat", "on_gameover", "on_rematch_request",
               "on_rematch_accept", "on_ready", "on_gamestart"}

\* C29: an instance without a room (it left, and has not created or joined
\* since) is not changed by inbound ephemerals: RoomState, players and
\* player_states stay as they are and no event is sent to the application.
C29_NoIngestionAfterLeave ==
  [][\A i \in Inst :
       (room_id[i] = None /\ last'.i = i /\ last'.op \in HandlerOps)
         => LocalRoom(i)' = LocalRoom(i) /\ log'[i] = log[i]]_vars

\* C30: player_states of an instance is empty right after its leave, its
\* delete_room, its accept_rematch, and its ingestion of a Rematch / Accept.
C30_StatesCleared ==
  (/\ last.op \in {"leave", "delete_room", "accept_rematch", "on_rematch_accept"}
   /\ last.res = "Ok")
    => player_states[last.i] = Empty

\* C31: create() on an Idle instance makes it host with itself, not ready, as
\* the only player; when the publish of the room event fails the status is
\* Creating and nothing was started; the published room event has status
\* Waiting, the instance's seed and the instance as its only player; the
\* status is Waiting once it is published, and the subscription, the
\* heartbeat and the reconciliation task are started only after that.
C31_CreateOrder ==
  [][\A i \in Inst :
       (Ran("create", i) /\ status[i] = "Idle") =>
         LET r == room_id'[i]
             started == subs'[i] # subs[i] \/ hb_tasks'[i] # hb_tasks[i]
                          \/ presence_tasks'[i] # presence_tasks[i]
         IN /\ r # None /\ is_host'[i]
            /\ DOMAIN players'[i] = {i} /\ ~players'[i][i].ready
            /\ IF snapshot'[r] = snapshot[r]
               THEN status'[i] = "Creating" /\ ~started
               ELSE /\ snapshot'[r].status = "Waiting"
                    /\ snapshot'[r].seed = seed'[i]
                    /\ DOMAIN snapshot'[r].players = {i}
                    /\ status'[i] = "Waiting"
            /\ last'.res = "Ok" <=> started]_vars

\* C32: every code path takes the locks in the order room_state, players,
\* player_states (a task that waits for a lock holds only locks that come
\* before it), and while sends into the event queue return, the running code
\* paths never all wait for each other: some running task can take a step.
Rank(l) == CASE l = "room_state" -> 1 [] l = "players" -> 2 [] l = "player_states" -> 3

CanStep(t) ==
  /\ running[t] # Finished
  /\ (Acquiring(t) /\ Queued(t)) => (Head(lock_q[At(t).l]) = t /\ Free(At(t).l, At(t).op))

C32_LockOrder ==
  /\ \A t \in Tasks : Acquiring(t) => \A g \in Held(t) : Rank(g.l) < Rank(At(t).l)
  /\ (\E t \in Tasks : running[t] # Finished) => \E t \in Tasks : CanStep(t)

\* send_ready, holding room_state, waits for players behind a handler that
\* holds it, while a third task waits for room_state.
C32_Witness ==
  \E t, u, v \in Tasks :
    /\ Acquiring(t) /\ Queued(t) /\ At(t).l = "players"
    /\ running[t].path = send_ready_locks /\ read("room_state") \in Held(t)
    /\ write("players") \in Held(u) /\ running[u].path = on_state_locks
    /\ Acquiring(v) /\ Queued(v) /\ At(v).l = "room_state" /\ running[v].path = leave_locks

\* C33: a Join for a player who is already in the receiver's players map
\* changes nothing: no PlayerJoin is emitted again, and every entry keeps its
\* joined_at and its ready flag.
C33_JoinIdempotent ==
  [][\A j \in Inst :
       (Ran("on_join", j) /\ DOMAIN players'[j] = DOMAIN players[j]) =>
         /\ log'[j] = log[j]
         /\ \A pk \in DOMAIN players[j] :
              /\ players'[j][pk].joined_at = players[j][pk].joined_at
              /\ players'[j][pk].ready = players[j][pk].ready]_vars

\* C34: the handler of a Join touches the presence entry of the Join's author
\* only: every other entry of the receiver's players map, the receiver's own
\* included, is the same before and after, whatever pubkey the payload names.
C34_JoinAuthorOnly ==
  [][\A j \in Inst :
       Ran("on_join", j) =>
         \E m \in BagToSet(net) :
           /\ m.to = j /\ m.type = "join" /\ net' = Taken(net, m)
           /\ \A pk \in (DOMAIN players[j] \cup DOMAIN players'[j]) \ {m.from} :
                /\ pk \in DOMAIN players[j] /\ pk \in DOMAIN players'[j]
                /\ players'[j][pk] = players[j][pk]]_vars

\* C35: a sweep that finds a player whose last_seen is later than the host's
\* now completes normally and keeps that player.
C35_FutureLastSeenKept ==
  [][\A i \in Inst :
       Ran("presence_update", i) =>
         \A q \in DOMAIN players[i] :
           players[i][q].last_seen > now_ms(i) =>
             last'.res = "Ok" /\ q \in DOMAIN players'[i]]_vars

\* C36: an instance that is in a room, having entered rooms only from Idle,
\* ingests each ephemeral delivered to it once (no pending ephemeral has a
\* second copy on its way to the handler) and has one heartbeat task.
C36_OnceAfterReenter ==
  \A i \in Inst :
    room_id[i] # None =>
      /\ hb_tasks[i] <= 1
      /\ \A m \in BagToSet(net) : m.to = i => net[m] = 1

\* C37: a countdown whose instance holds a ready flag that is false when the
\* countdown is over does not start the game: the task neither sets the
\* status to Playing nor sends GameStart.
C37_CountdownAborted ==
  [][\A i \in Inst :
       (\E pk \in DOMAIN players[i] : ~players[i][pk].ready) => ~Ran("countdown_end", i)]_vars

\* C38: create() or join() on an instance that has a room returns
\* AlreadyInRoom and leaves the RoomState and the players map as they were.
C38_AlreadyInRoom ==
  [][\A i \in Inst :
       ((Ran("create", i) \/ Ran("join", i)) /\ room_id[i] # None) =>
         /\ last'.res = "AlreadyInRoom"
         /\ LocalRoom(i)' = LocalRoom(i)
         /\ players'[i] = players[i]]_vars

\* C39: create() or join() that is called without a room and fails with a
\* relay error leaves the instance without a room: room_id None, status Idle,
\* is_host false and no players.
C39_FailedEntryLeavesNoRoom ==
  [][\A i \in Inst :
       /\ Ran("create", i) \/ Ran("join", i)
       /\ room_id[i] = None /\ status[i] = "Idle" /\ players[i] = Empty
       /\ last'.res = "Nostr"
       => /\ room_id'[i] = None /\ status'[i] = "Idle"
          /\ ~is_host'[i] /\ players'[i] = Empty]_vars

\* C40: the status an instance keeps of its room is never Deleted; Deleted is
\* a status of published snapshots only.
C40_NeverDeletedLocally == \A i \in Inst : status[i] # "Deleted"

\* The host deleted its room and is Idle; a peer that then tried to join read
\* the Deleted snapshot and was refused.
C40_Witness ==
  /\ last = [op |-> "join", i |-> "B", res |-> "RoomDeleted"]
  /\ snapshot["r1"].status = "Deleted"
  /\ status["A"] = "Idle"
  /\ room_id["A"] = None

====
